---- MODULE Spec2Model ----
(***************************************************************************)
(* Model of src/CNN.cpp: the Layer chain (prev/next, values, biases,       *)
(* weights) and the CNN that owns it, with the two recursive traversals    *)
(* forward_propogate and back_propogate.                                   *)
(*                                                                         *)
(* float_t is modelled as fixed point: the integer x stands for x / One.   *)
(* A product of two floats is rounded to the nearest unit (Mul).           *)
(* A null pointer is NULL; layers are named by the order of construction.  *)
(***************************************************************************)
EXTENDS Integers, Sequences, FiniteSets, TLC

\* ------------------------------------------------------------- bounds
MaxLayers == 3
MaxSize == 2
MaxCalls == 3
NumSeeds == 2

\* ------------------------------------------------------------ numbers
\* the float 1.0
One == 1000
\* 0.1f, line 148
LearningRate == One \div 10
\* nullptr
NULL == 0

Half == One \div 2

\* the float product a * b, rounded to the nearest unit
Mul(a, b) == (a * b + Half) \div One

\* 1 / (1 + exp(-x)) at x = 0, 0.5, 1, ... 8, in units of 1/One
SigmoidTable ==
  <<500, 622, 731, 818, 881, 924, 953, 971, 982, 989, 993, 996, 998, 998, 999, 999, 1000>>

SigmoidPos(x) ==
  IF x >= 8 * One THEN One
  ELSE LET k == x \div Half
           r == x % Half
           lo == SigmoidTable[k + 1]
           hi == SigmoidTable[k + 2]
       IN lo + ((hi - lo) * r + Half \div 2) \div Half

sigmoid(x) == IF x >= 0 THEN SigmoidPos(x) ELSE One - SigmoidPos(-x)

activation(x) == sigmoid(x)

RECURSIVE inner_product(_, _, _)
inner_product(a, b, n) ==
  IF n = 0 THEN 0 ELSE inner_product(a, b, n - 1) + Mul(a[n], b[n])

\* dot's result when the sizes agree; SizesDiffer is its throw condition
SizesDiffer(a, b) == Len(a) # Len(b)
dot(a, b) == inner_product(a, b, Len(a))

Zeros(n) == [k \in 1..n |-> 0]

\* ------------------------------------------------------------ state
VARIABLES
  layers,    \* CNN::layers, the layers in the order they were added
  prev,      \* Layer::prev of each layer
  next,      \* Layer::next of each layer
  values,    \* Layer::values
  biases,    \* Layer::biases
  weights,   \* Layer::weights, a sequence of rows
  in_size,   \* Layer::in_size
  out_size,  \* Layer::out_size
  inited,    \* CNN::init has run
  pc,        \* "idle", "fwd" or "bwd" (a traversal is running), "crashed"
  root,      \* who started the running traversal: "cnn", "layer", "none"
  stack,     \* the layers of the nested Layer frames, outermost first
  delta,     \* the delta argument of each back_propogate frame
  labels,    \* the argument of the running CNN::back_propogate
  err,       \* "runtime_error" when the last call ended in dot's throw
  ub,        \* the run has executed undefined behaviour
  calls      \* calls made on the built network

vars == <<layers, prev, next, values, biases, weights, in_size, out_size,
          inited, pc, root, stack, delta, labels, err, ub, calls>>

topo == <<layers, prev, next, in_size, out_size>>
ctl == <<pc, root, stack, delta, labels, err, ub>>

empty == Len(layers) = 0
head == IF empty THEN NULL ELSE layers[1]
tail == IF empty THEN NULL ELSE layers[Len(layers)]

\* the neuron counts a layer is constructed with (at least one neuron)
Sizes == 1..MaxSize
Seeds == 1..NumSeeds

Init ==
  /\ layers = <<>>
  /\ prev = <<>>
  /\ next = <<>>
  /\ values = <<>>
  /\ biases = <<>>
  /\ weights = <<>>
  /\ in_size = <<>>
  /\ out_size = <<>>
  /\ inited = FALSE
  /\ pc = "idle"
  /\ root = "none"
  /\ stack = <<>>
  /\ delta = <<>>
  /\ labels = <<>>
  /\ err = "none"
  /\ ub = FALSE
  /\ calls = 0

\* ------------------------------------------------------ construction
\* Layer::add_tail on layer t with the new layer l: the two pointers it writes
add_tail_next(nx, t, l) == [nx EXCEPT ![t] = l]
\* (faulty variant: add_tail forgets layer->prev = this)
add_tail_prev_forgotten(pv, t, l) == pv
add_tail_prev(pv, t, l) == [pv EXCEPT ![l] = t]

\* make_shared<Layer>(i, o, 0, 0) followed by CNN::add. As in main, the
\* layers are added and CNN::init is run before the network is used.
Add(i, o) ==
  /\ pc = "idle"
  /\ ~ub
  /\ ~inited
  /\ calls = 0
  /\ Len(layers) < MaxLayers
  /\ LET l == Len(layers) + 1
         t == tail
     IN /\ in_size' = Append(in_size, i)
        /\ out_size' = Append(out_size, o)
        /\ values' = Append(values, Zeros(i))
        /\ biases' = Append(biases, Zeros(i))
        /\ weights' = Append(weights, <<>>)
        /\ prev' = IF t # NULL THEN add_tail_prev(Append(prev, NULL), t, l)
                   ELSE Append(prev, NULL)
        /\ next' = IF t # NULL THEN add_tail_next(Append(next, NULL), t, l)
                   ELSE Append(next, NULL)
        /\ layers' = Append(layers, l)
  /\ UNCHANGED <<inited, ctl, calls>>

\* the k-th draw of uniform_real_distribution(-1, 1) from a generator seeded sd
DrawPool == <<One, 0 - Half, Half \div 2, 0 - One>>
Draw(sd, k) == DrawPool[((sd + k) % Len(DrawPool)) + 1]

\* (faulty variant: init_weights allocates in_size rows of out_size weights)
init_weights_transposed(l, sd) ==
  IF next[l] = NULL THEN weights[l]
  ELSE [i \in 1..in_size[l] |->
          [j \in 1..out_size[l] |-> Draw(sd, (i - 1) * out_size[l] + j)]]

\* Layer::init_weights on layer l with random_device value sd
init_weights(l, sd) ==
  IF next[l] = NULL THEN weights[l]
  ELSE [i \in 1..out_size[l] |->
          [j \in 1..in_size[l] |-> Draw(sd, (i - 1) * in_size[l] + j)]]

\* CNN::init; the l-th random_device of the run yields sd + l
InitNet ==
  /\ pc = "idle"
  /\ ~ub
  /\ ~inited
  /\ calls = 0
  /\ \E sd \in Seeds :
       weights' = [l \in 1..Len(layers) |-> init_weights(l, sd + l)]
  /\ inited' = TRUE
  /\ UNCHANGED <<topo, values, biases, ctl, calls>>

\* ------------------------------------------------- out-of-range access
\* operator[] outside a vector is undefined: a read yields an arbitrary
\* float g, a row read yields an arbitrary (here empty) vector, a write lands
\* outside every vector of the model; or the process dies (Crash below).
\* What a run does after undefined behaviour is unconstrained: the model
\* records the step's outcome with ub set and follows the run no further.
Garbage == {0 - One, 3 * One}

InRange(v, i) == i >= 1 /\ i <= Len(v)
RdF(v, i, g) == IF InRange(v, i) THEN v[i] ELSE g
RdRow(m, i) == IF InRange(m, i) THEN m[i] ELSE <<>>
Wr(v, i, x) == IF InRange(v, i) THEN [v EXCEPT ![i] = x] ELSE v

top == stack[Len(stack)]
topdelta == delta[Len(delta)]

\* ------------------------------------------------------------ forward
\* (faulty variant: the test of line 126 inverted)
FwdReturnsInverted(l) == next[l] # NULL
\* line 126: the frame returns at once
FwdReturns(l) == next[l] = NULL

\* (faulty variant: the bias is read from the layer's own vector)
BiasOwnerSelf(l) == l
\* line 131: the layer whose bias vector is read for neuron i of next
BiasOwner(l) == next[l]

\* (faulty variant: the activation is written to the layer's own values)
FwdWrittenSelf(l) == l
\* line 132: the layer whose values are written
FwdWritten(l) == next[l]

\* the loop of Layer::forward_propogate on l after its first i iterations:
\* vals is next->values, thrown says dot threw, oob says an access was
\* out of range
RECURSIVE FwdLoop(_, _, _)
FwdLoop(l, i, g) ==
  IF i = 0 THEN [vals |-> values[FwdWritten(l)], thrown |-> FALSE, oob |-> FALSE]
  ELSE LET p == FwdLoop(l, i - 1, g)
           w == RdRow(weights[l], i)
           b == biases[BiasOwner(l)]
           d == dot(w, values[l]) + RdF(b, i, g)
       IN IF p.thrown THEN p
          ELSE IF SizesDiffer(w, values[l])
               THEN [p EXCEPT !.thrown = TRUE,
                              !.oob = p.oob \/ ~InRange(weights[l], i)]
          ELSE [vals |-> Wr(p.vals, i, activation(d)),
                thrown |-> FALSE,
                oob |-> \/ p.oob
                        \/ ~InRange(weights[l], i)
                        \/ ~InRange(b, i)
                        \/ ~InRange(p.vals, i)]

FwdResult(l, g) == FwdLoop(l, out_size[l], g)

\* (faulty variant: the recursion stays on the same layer)
FwdTargetSelf(l) == l
\* line 135: the layer the recursion continues on
FwdTarget(l) == next[l]

\* CNN::forward_propogate
ForwardCall ==
  /\ pc = "idle"
  /\ ~ub
  /\ calls < MaxCalls
  /\ calls' = calls + 1
  /\ err' = "none"
  /\ IF empty
     THEN /\ pc' = "crashed"
          /\ ub' = TRUE
          /\ UNCHANGED <<root, stack>>
     ELSE /\ pc' = "fwd"
          /\ root' = "cnn"
          /\ stack' = <<head>>
          /\ UNCHANGED ub
  /\ UNCHANGED <<topo, values, biases, weights, inited, delta, labels>>

\* Layer::forward_propogate called on a layer directly
LayerForwardCall(l) ==
  /\ pc = "idle"
  /\ ~ub
  /\ calls < MaxCalls
  /\ calls' = calls + 1
  /\ err' = "none"
  /\ pc' = "fwd"
  /\ root' = "layer"
  /\ stack' = <<l>>
  /\ UNCHANGED <<topo, values, biases, weights, inited, delta, labels, ub>>

\* one frame of Layer::forward_propogate, lines 125-136
FwdStep ==
  /\ pc = "fwd"
  /\ ~ub
  /\ LET l == top IN
     IF FwdReturns(l)
     THEN /\ pc' = "idle"
          /\ root' = "none"
          /\ stack' = <<>>
          /\ UNCHANGED <<values, err, ub>>
     ELSE IF next[l] = NULL
     THEN /\ pc' = "crashed"
          /\ ub' = TRUE
          /\ UNCHANGED <<values, root, stack, err>>
     ELSE \E g \in Garbage :
          LET r == FwdResult(l, g) IN
          /\ values' = [values EXCEPT ![FwdWritten(l)] = r.vals]
          /\ ub' = (ub \/ r.oob)
          /\ IF r.thrown
             THEN /\ pc' = "idle"
                  /\ root' = "none"
                  /\ stack' = <<>>
                  /\ err' = "runtime_error"
             ELSE /\ stack' = Append(stack, FwdTarget(l))
                  /\ UNCHANGED <<pc, root, err>>
  /\ UNCHANGED <<topo, biases, weights, inited, delta, labels, calls>>

\* ----------------------------------------------------------- backward
\* line 139: the frame returns at once
BwdReturns(l) == prev[l] = NULL

\* line 148: the weight after its update
UpdatedWeight(w, d, a) == w + Mul(Mul(LearningRate, d), a)

\* (faulty variant: the delta contribution reads the weight before its update)
DeltaWeightOld(old, new) == old
\* line 150: the weight the delta contribution reads, given the weight
\* before (old) and after (new) line 148
DeltaWeight(old, new) == new

\* line 150: the value computed for prev_delta[j]
Contribution(a, w, d) == Mul(Mul(Mul(a, One - a), w), d)

\* (faulty variant: the contribution is accumulated, += for =)
StoreDeltaSum(acc, x) == acc + x
\* line 150: what the assignment leaves in prev_delta[j], which held acc
StoreDelta(acc, x) == x

\* the inner loop (lines 147-151) over row w of prev->weights after its
\* first j iterations, for neuron i's delta d on predecessor p
RECURSIVE BwdRow(_, _, _, _, _, _)
BwdRow(p, w, d, pd, j, g) ==
  IF j = 0 THEN [w |-> w, pd |-> pd, oob |-> FALSE]
  ELSE LET q == BwdRow(p, w, d, pd, j - 1, g)
           a == RdF(values[p], j, g)
           nw == UpdatedWeight(w[j], d, a)
           c == Contribution(a, DeltaWeight(w[j], nw), d)
       IN [w |-> [q.w EXCEPT ![j] = nw],
           pd |-> Wr(q.pd, j, StoreDelta(RdF(q.pd, j, g), c)),
           oob |-> q.oob \/ ~InRange(values[p], j) \/ ~InRange(q.pd, j)]

\* the outer loop (lines 144-152) of Layer::back_propogate on l with
\* argument dl after its first i iterations: m is prev->weights, pd is
\* prev_delta
RECURSIVE BwdLoop(_, _, _, _)
BwdLoop(l, dl, i, g) ==
  IF i = 0 THEN [m |-> weights[prev[l]],
                 pd |-> Zeros(in_size[prev[l]]),
                 oob |-> FALSE]
  ELSE LET q == BwdLoop(l, dl, i - 1, g)
           w == RdRow(q.m, i)
           r == BwdRow(prev[l], w, RdF(dl, i, g), q.pd, Len(w), g)
       IN [m |-> Wr(q.m, i, r.w),
           pd |-> r.pd,
           oob |-> \/ q.oob
                   \/ r.oob
                   \/ ~InRange(q.m, i)
                   \/ (Len(w) > 0 /\ ~InRange(dl, i))]

BwdResult(l, dl, g) == BwdLoop(l, dl, in_size[l], g)

\* line 156: the layer the recursion continues on
BwdTarget(l) == prev[l]

\* lines 169-172: the delta CNN::back_propogate hands to the tail
TailDelta(lb, g) ==
  [i \in 1..in_size[tail] |->
     LET v == RdF(values[tail], i, g)
     IN Mul(Mul(v, One - v), RdF(lb, i, g) - v)]

TailDeltaOob(lb) ==
  Len(lb) < in_size[tail] \/ Len(values[tail]) < in_size[tail]

\* CNN::back_propogate
BackwardCall(lb) ==
  /\ pc = "idle"
  /\ ~ub
  /\ calls < MaxCalls
  /\ calls' = calls + 1
  /\ err' = "none"
  /\ labels' = lb
  /\ IF empty
     THEN /\ pc' = "crashed"
          /\ ub' = TRUE
          /\ UNCHANGED <<root, stack, delta>>
     ELSE \/ /\ TailDeltaOob(lb)
             /\ pc' = "crashed"
             /\ ub' = TRUE
             /\ UNCHANGED <<root, stack, delta>>
          \/ \E g \in Garbage :
             /\ pc' = "bwd"
             /\ root' = "cnn"
             /\ stack' = <<tail>>
             /\ delta' = <<TailDelta(lb, g)>>
             /\ ub' = (ub \/ TailDeltaOob(lb))
  /\ UNCHANGED <<topo, values, biases, weights, inited>>

\* Layer::back_propogate called on a layer directly
LayerBackwardCall(l, dl) ==
  /\ pc = "idle"
  /\ ~ub
  /\ calls < MaxCalls
  /\ calls' = calls + 1
  /\ err' = "none"
  /\ pc' = "bwd"
  /\ root' = "layer"
  /\ stack' = <<l>>
  /\ delta' = <<dl>>
  /\ UNCHANGED <<topo, values, biases, weights, inited, labels, ub>>

\* one frame of Layer::back_propogate, lines 138-157
BwdStep ==
  /\ pc = "bwd"
  /\ ~ub
  /\ LET l == top IN
     IF BwdReturns(l)
     THEN /\ pc' = "idle"
          /\ root' = "none"
          /\ stack' = <<>>
          /\ delta' = <<>>
          /\ labels' = <<>>
          /\ UNCHANGED <<weights, ub>>
     ELSE IF prev[l] = NULL
     THEN /\ pc' = "crashed"
          /\ ub' = TRUE
          /\ UNCHANGED <<weights, root, stack, delta, labels>>
     ELSE \E g \in Garbage :
          LET r == BwdResult(l, topdelta, g) IN
          /\ weights' = [weights EXCEPT ![prev[l]] = r.m]
          /\ delta' = Append(delta, r.pd)
          /\ ub' = (ub \/ r.oob)
          /\ stack' = Append(stack, BwdTarget(l))
          /\ UNCHANGED <<pc, root, labels>>
  /\ UNCHANGED <<topo, values, biases, inited, err, calls>>

\* ------------------------------------------------------------- caller
InputVals == {0, One}
DeltaVals == {0 - One, Half}

Vectors(S, n) == [1..n -> S]

\* input->values = training[i] (lines 233, 247, 259)
SetInput(v) ==
  /\ pc = "idle"
  /\ ~ub
  /\ ~empty
  /\ calls < MaxCalls
  /\ calls' = calls + 1
  /\ values' = [values EXCEPT ![head] = v]
  /\ UNCHANGED <<topo, biases, weights, inited, ctl>>

\* the frame on top of the stack is about to access a vector out of range
PendingOob ==
  \/ /\ pc = "fwd"
     /\ next[top] # NULL
     /\ \E g \in Garbage : FwdResult(top, g).oob
  \/ /\ pc = "bwd"
     /\ prev[top] # NULL
     /\ \E g \in Garbage : BwdResult(top, topdelta, g).oob

\* the out-of-range access kills the process
Crash ==
  /\ ~ub
  /\ PendingOob
  /\ pc' = "crashed"
  /\ ub' = TRUE
  /\ UNCHANGED <<topo, values, biases, weights, inited, root, stack, delta,
                 labels, err, calls>>

Next ==
  \/ \E i \in Sizes, o \in Sizes : Add(i, o)
  \/ InitNet
  \/ \E n \in 0..MaxSize : \E v \in Vectors(InputVals, n) : SetInput(v)
  \/ ForwardCall
  \/ \E l \in 1..Len(layers) : LayerForwardCall(l)
  \/ FwdStep
  \/ \E n \in 0..MaxSize : \E lb \in Vectors(InputVals, n) : BackwardCall(lb)
  \/ \E l \in 1..Len(layers) : \E dl \in Vectors(DeltaVals, in_size[l]) :
        LayerBackwardCall(l, dl)
  \/ BwdStep
  \/ Crash

Spec == Init /\ [][Next]_vars

\* ------------------------------------------------------------ shapes
N == Len(layers)
Pairs == {l \in 1..N : next[l] # NULL}

\* every layer was constructed with out_size = the in_size of the layer
\* added after it
WellShaped == \A l \in Pairs : out_size[l] = in_size[next[l]]

NextValuesFit(l) == Len(values[next[l]]) = out_size[l]
WeightsFit(l) ==
  /\ Len(weights[l]) = out_size[l]
  /\ \A i \in 1..Len(weights[l]) : Len(weights[l][i]) = in_size[l]
ValuesFit(l) == Len(values[l]) = in_size[l]

\* the pair (l, next[l]) has the shape both traversals rely on
PairOK(l) == NextValuesFit(l) /\ WeightsFit(l) /\ ValuesFit(l)

RECURSIVE ChainFrom(_, _)
ChainFrom(l, fuel) ==
  IF l = NULL \/ fuel = 0 THEN <<>> ELSE <<l>> \o ChainFrom(next[l], fuel - 1)

\* ------------------------------------------------------------ claims

\* C1 (chain integrity): after N >= 1 adds of distinct layers, head() is the
\* first layer added and tail() the last, following next from head() visits
\* exactly the N layers in the order they were added and ends at the tail,
\* the head has no prev, and L.next.prev = L for every layer with a successor.
C1_ChainIntegrity ==
  N >= 1 =>
    /\ head = 1
    /\ tail = N
    /\ prev[head] = NULL
    /\ next[tail] = NULL
    /\ ChainFrom(head, N + 1) = [k \in 1..N |-> k]
    /\ \A l \in Pairs : prev[next[l]] = l

C1_Witness ==
  /\ N = 3
  /\ ChainFrom(head, N + 1) = <<1, 2, 3>>
  /\ prev[3] = 2

\* C2 as stated (shape invariant of every network built by add and init):
\* after init, every adjacent pair (L, L.next) has L.next.values of length
\* L.out_size and L.weights of L.out_size rows of length L.in_size.
C2_Original ==
  inited => \A l \in Pairs : NextValuesFit(l) /\ WeightsFit(l)

\* C2 amended: the same, for the networks whose layers were each constructed
\* with out_size equal to the in_size of the layer added after it; it holds
\* after init and after every later forward and backward call.
C2_ShapeInvariant ==
  (inited /\ WellShaped) => \A l \in Pairs : NextValuesFit(l) /\ WeightsFit(l)

C2_Witness ==
  /\ inited
  /\ WellShaped
  /\ N = 3
  /\ in_size[1] # out_size[1]
  /\ out_size[1] >= 1
  /\ pc = "idle"
  /\ calls >= 2
  /\ weights[1] # init_weights(1, 2) /\ weights[1] # init_weights(1, 3)

\* the frame on top of the stack runs its loop and recurses
FwdActs == pc = "fwd" /\ ~ub /\ ~FwdReturns(top) /\ PairOK(top) /\ inited
BwdActs ==
  /\ pc = "bwd" /\ ~ub /\ ~BwdReturns(top) /\ inited
  /\ PairOK(prev[top])
  /\ ValuesFit(top)
  /\ Len(topdelta) = in_size[top]

\* C3 as stated (forward step formula): a forward step on a layer L with a
\* successor sets next.values[i] to sigmoid(dot(L.weights[i], L.values) +
\* L.biases[i]) for every neuron i of the successor, the bias being element i
\* of L's own bias vector.
C3_Original ==
  [][(FwdActs /\ stack' # stack) =>
       \A i \in 1..out_size[top] :
         /\ InRange(biases[top], i)
         /\ values'[next[top]][i] =
              sigmoid(dot(weights[top][i], values[top]) + biases[top][i])]_vars

\* C3 amended: the same formula with the bias read from the successor's bias
\* vector, next.biases[i]; the step then recurses on the successor without
\* throwing and without any out-of-range access.
C3_ForwardFormula ==
  [][FwdActs =>
       /\ stack' = Append(stack, next[top])
       /\ ~ub'
       /\ err' = err
       /\ \A i \in 1..out_size[top] :
            /\ InRange(biases[next[top]], i)
            /\ values'[next[top]][i] =
                 sigmoid(dot(weights[top][i], values[top]) + biases[next[top]][i])]_vars

C3_Witness ==
  /\ pc = "fwd"
  /\ ~ub
  /\ inited
  /\ Len(stack) = 2
  /\ PairOK(stack[1])
  /\ out_size[stack[1]] > in_size[stack[1]]
  /\ in_size[stack[1]] >= 1
  /\ \E i \in 1..Len(values[stack[2]]) : values[stack[2]][i] # Half

\* C4 (backward step ordering): a backward step on a layer with delta d and
\* predecessor P increases P.weights[i][j] by 0.1 * d[i] * P.values[j] for every
\* pair (i, j), and the value iteration i leaves in prev_delta[j] is
\* P.values[j] * (1 - P.values[j]) * w * d[i] with w the weight already
\* updated, never the weight before the update.
C4_BackwardOrdering ==
  [][BwdActs =>
       /\ stack' = Append(stack, prev[top])
       /\ ~ub'
       /\ \A i \in 1..in_size[top] : \A j \in 1..in_size[prev[top]] :
            LET a == values[prev[top]][j]
                d == topdelta[i]
            IN /\ weights'[prev[top]][i][j] =
                    weights[prev[top]][i][j] + Mul(Mul(LearningRate, d), a)
               /\ \A g \in Garbage :
                    BwdLoop(top, topdelta, i, g).pd[j] =
                      Mul(Mul(Mul(a, One - a), weights'[prev[top]][i][j]), d)]_vars

\* a backward frame k that has acted on a pair of the expected shape
BwdDone(k) ==
  /\ pc = "bwd" /\ ~ub /\ inited
  /\ k + 1 <= Len(stack)
  /\ in_size[stack[k]] >= 1

C4_Witness ==
  /\ BwdDone(1)
  /\ LET l == stack[1]
         p == stack[2]
     IN /\ in_size[l] = 2
        /\ in_size[p] = 2
        /\ \E j \in 1..2 :
             /\ weights[p][2][j] # init_weights(p, 1 + p)[2][j]
             /\ weights[p][2][j] # init_weights(p, 2 + p)[2][j]
             /\ delta[2][j] # 0

\* C5 as stated (label-length check): CNN::back_propogate(labels) fails when
\* the length of labels differs from the tail's neuron count, so it never
\* starts the traversal at the tail and changes no weight.
C5_Original ==
  (pc = "bwd" /\ root = "cnn") => Len(labels) = in_size[tail]

\* C6 as stated (shape violations are reported): the first forward or
\* backward step that touches an adjacent pair violating the shape invariant
\* ends in the size error and makes no out-of-range access.
C6_Original ==
  [][/\ (pc = "fwd" /\ ~ub /\ ~FwdReturns(top) /\ ~PairOK(top))
          => (err' = "runtime_error" /\ ~ub')
     /\ (pc = "bwd" /\ ~ub /\ ~BwdReturns(top) /\ ~PairOK(prev[top]))
          => (err' = "runtime_error" /\ ~ub')]_vars

Data == <<values, weights, biases>>

\* C7 (no-op terminal cases): a forward frame on a layer with no successor
\* and a backward frame on a layer with no predecessor, whatever its delta,
\* return normally and leave every layer's values, weights and biases as they
\* were; in a one-layer network no step of forward() or backward() changes
\* them.
C7_NoOpTerminal ==
  [][/\ ((pc = "fwd" /\ ~ub /\ next[top] = NULL)
          \/ (pc = "bwd" /\ ~ub /\ prev[top] = NULL))
          => (UNCHANGED Data /\ pc' = "idle" /\ ~ub')
     /\ (N = 1 /\ (pc # "idle" \/ pc' # "idle")) => UNCHANGED Data]_vars

C7_Witness ==
  /\ pc = "bwd"
  /\ ~ub
  /\ root = "layer"
  /\ N >= 2
  /\ stack = <<head>>
  /\ \E j \in 1..Len(topdelta) : topdelta[j] # 0
  /\ inited
  /\ in_size[head] >= 1 /\ out_size[head] >= 1

\* C8 (mutation frame): on an initialized network of matching sizes, every
\* step of a forward traversal leaves all weights, all biases, the head's
\* values and the chain (prev, next, layers, sizes) unchanged, and every step
\* of a backward traversal leaves all values, all biases, the tail's weights
\* and the chain unchanged.
C8_MutationFrame ==
  [][(inited /\ WellShaped /\ N >= 1) =>
       /\ (pc = "fwd" \/ pc' = "fwd") =>
            /\ UNCHANGED <<weights, biases, topo>>
            /\ values'[head] = values[head]
       /\ (pc = "bwd" \/ pc' = "bwd") =>
            /\ UNCHANGED <<values, biases, topo>>
            /\ weights'[tail] = weights[tail]]_vars

C8_Witness ==
  /\ inited /\ WellShaped /\ N = 3 /\ ~ub
  /\ pc = "bwd"
  /\ root = "cnn"
  /\ Len(stack) = 3
  /\ values[2] # Zeros(in_size[2])
  /\ values[3] # Zeros(in_size[3])
  /\ weights[1] # init_weights(1, 2) /\ weights[1] # init_weights(1, 3)
  /\ weights[2] # init_weights(2, 3) /\ weights[2] # init_weights(2, 4)

\* C9 (traversal order and termination): in a traversal started by the CNN
\* the nested frames are on the layers in chain order from the head (forward)
\* or in reverse chain order from the tail (backward), each layer at most
\* once, so at most N frames; the frame that returns is on the tail (forward)
\* or on the head (backward), when every other layer has had its frame.
C9_TraversalOrder ==
  (root = "cnn" /\ ~ub /\ pc \in {"fwd", "bwd"}) =>
    /\ Len(stack) >= 1
    /\ Len(stack) <= N
    /\ pc = "fwd" =>
         /\ \A k \in 1..Len(stack) : stack[k] = layers[k]
         /\ FwdReturns(top) => Len(stack) = N
    /\ pc = "bwd" =>
         /\ \A k \in 1..Len(stack) : stack[k] = layers[N + 1 - k]
         /\ BwdReturns(top) => Len(stack) = N

C9_Witness ==
  /\ root = "cnn" /\ ~ub /\ pc = "bwd"
  /\ inited /\ WellShaped
  /\ stack = <<3, 2, 1>>
  /\ weights[1] # init_weights(1, 2) /\ weights[1] # init_weights(1, 3)

\* C10 (delta is overwritten, not accumulated): the delta a backward frame on
\* a layer of in_size n >= 1 hands to its predecessor P is, for every j,
\* P.values[j] * (1 - P.values[j]) * (updated P.weights[n][j]) * delta[n], the
\* contribution of the last neuron alone.
C10_LastNeuronOnly ==
  \A k \in 1..Len(stack) :
    BwdDone(k) =>
      LET l == stack[k]
          p == stack[k + 1]
          n == in_size[l]
      IN delta[k + 1] =
           [j \in 1..in_size[p] |->
              LET a == values[p][j]
              IN Mul(Mul(Mul(a, One - a), weights[p][n][j]), delta[k][n])]

C10_Witness ==
  /\ BwdDone(1)
  /\ LET l == stack[1]
         p == stack[2]
     IN /\ in_size[l] = 2
        /\ \E j \in 1..in_size[p] :
             /\ Contribution(values[p][j], weights[p][1][j], delta[1][1]) # 0
             /\ delta[2][j] # 0

====
